---- MODULE Spec2Model ----
(***************************************************************************)
(* DevMap (include/DevMap.hpp): the project registry of DevCore and its    *)
(* synchronisation with the directory tree under the projects root.        *)
(*                                                                         *)
(* A path is a sequence of path segments.  The directory tree is a         *)
(* function from the paths of the existing directories to the number of    *)
(* bytes held by the regular files directly inside each of them.           *)
(* The registry (devmapData, and the registry file) is a record with the   *)
(* three top-level fields of the JSON document; has<Field> tells whether   *)
(* the field is present and an array.                                      *)
(***************************************************************************)
EXTENDS Integers, Sequences, FiniteSets, TLC

\* ---------------------------------------------------------------- bounds
MaxDeclared == 1       \* most Project records in the registry file at start
MaxLanguages == 1      \* most Languages entries in the registry file at start
MaxRecords == 2        \* the wizard is not run once Projects holds this many
StartClock == 45       \* the time of the run, in seconds
MaxDirs == 1           \* most project directories in the tree at start

\* ------------------------------------------------------------- constants
SecondsPerMinute == 60 \* "%H:%M %d-%m-%Y" keeps minutes, drops seconds

HOME_PATH == <<"home">>           \* Main::HOME_PATH
projects_path == <<"projects">>   \* Config::get("projects_path")
projectsPath == HOME_PATH \o projects_path

Langs == {"Go", "Python"}
Folders == {"foo", "svc"}
GitDir == ".git"
\* std::set<std::string> iterates in ascending order; this is that order on
\* the user names of the model.
UserOrder == <<"alice", "bob", "current_user", "unknown">>
\* The two orders in which a directory_iterator may list sibling entries.
DirOrders == { <<"Go", "Python", "foo", "svc">>, <<"svc", "foo", "Python", "Go">> }

VARIABLES
    tree,        \* the directory tree: [set of directory paths -> bytes of files inside]
    file,        \* the content of the registry file
    devmapData,  \* DevMap::devmapData
    languages,   \* DevMap::languages
    users,       \* DevMap::users
    projects,    \* DevMap::projects
    now,         \* std::time(nullptr), in seconds
    last,        \* the operation that returned last
    report,      \* what that operation printed through Canvas
    denied,      \* the directories the file system refuses to create
    writable,    \* whether the registry file opens for writing
    probe        \* where phase 4.5 stands, in a pass taken one probe at a time

vars == <<tree, file, devmapData, languages, users, projects, now, last, report,
          denied, writable, probe>>

\* ---------------------------------------------------------- the registry
NullJson ==
    [hasLanguages |-> FALSE, Languages |-> <<>>,
     hasProjects |-> FALSE, Projects |-> <<>>,
     hasUsers |-> FALSE, Users |-> <<>>]

\* A created_at string: well formed and denoting a minute, or not.
Garbage == [wellFormed |-> FALSE, minutes |-> 0]

Msg(m, l, f) == [msg |-> m, lang |-> l, folder |-> f]

\* ------------------------------------------------------------- the tree
IsPrefix(p, q) == Len(p) <= Len(q) /\ SubSeq(q, 1, Len(p)) = p

exists(t, p) == p \in DOMAIN t

\* fs::create_directories: the directory and every missing ancestor.
create_directories(t, p) ==
    LET added == { SubSeq(p, 1, n) : n \in 1..Len(p) } \ DOMAIN t
    IN  [d \in DOMAIN t \cup added |-> IF d \in DOMAIN t THEN t[d] ELSE 0]

\* fs::directory_iterator(p), directories only, in the order ord.
SubDirs(t, p, ord) ==
    SelectSeq(ord, LAMBDA n : Append(p, n) \in DOMAIN t)

RECURSIVE SumBytes(_, _)
SumBytes(t, ds) ==
    IF ds = {} THEN 0
    ELSE LET d == CHOOSE x \in ds : TRUE
         IN  t[d] + SumBytes(t, ds \ {d})

usesGit(t, projectfolder) == exists(t, Append(projectfolder, GitDir))

getFolderSize(t, projectfolder) ==
    IF exists(t, projectfolder)
    THEN SumBytes(t, { d \in DOMAIN t : IsPrefix(projectfolder, d) })
    ELSE 0

\* ------------------------------------------------------------- the time
(***************************************************************************)
(* A time_t is a count of seconds.  A created_at string, when well formed, *)
(* names a minute of the local wall clock.  The local zone keeps daylight  *)
(* saving time from the instant DstStart on: its wall clock then runs      *)
(* DstShift seconds ahead of standard time.                                *)
(***************************************************************************)
DstStart == 7200
DstShift == 3600

\* std::localtime: the wall clock, in seconds, at the instant t.
localtime(t) == IF t >= DstStart THEN t + DstShift ELSE t

\* std::mktime of a tm whose tm_isdst is 0 (line 46 zeroes the tm and
\* std::get_time leaves tm_isdst alone): the fields are read as standard
\* time whatever the date.
mktime(wallSeconds) == wallSeconds

parseTime(timeStr, clock) ==
    IF ~timeStr.wellFormed THEN clock
    ELSE mktime(timeStr.minutes * SecondsPerMinute)

timeToString(t) == [wellFormed |-> TRUE, minutes |-> localtime(t) \div SecondsPerMinute]

\* ------------------------------------------------------- syncDevMap
(***************************************************************************)
(* A pass works on a record s of the program state (fields tree, file,     *)
(* data, languages, users, projects, report) and exc, true once an         *)
(* exception nothing catches has left the pass.  env is what the pass      *)
(* takes from its surroundings: ord (the directory iteration order),       *)
(* clock (the current time), denied (the directories whose creation        *)
(* fails) and writable (whether the registry file opens for writing).      *)
(***************************************************************************)
ProjectPath(lang, folderName) == projectsPath \o <<lang, folderName>>

Say(s, m) == [s EXCEPT !.report = @ \cup {m}]

\* The directories a create_directories(p) call has to make.
Missing(t, p) == { SubSeq(p, 1, n) : n \in 1..Len(p) } \ DOMAIN t

CanCreate(t, p, env) == Missing(t, p) \cap env.denied = {}

\* The tree a create_directories(p) call leaves when it fails: the missing
\* ancestors above the first directory it is refused are made.
create_directories_failed(t, p, env) ==
    LET made == { n \in 1..Len(p) :
                    \A k \in 1..n : SubSeq(p, 1, k) \in DOMAIN t
                                     \/ SubSeq(p, 1, k) \notin env.denied }
    IN  IF made = {} THEN t
        ELSE create_directories(t, SubSeq(p, 1, CHOOSE n \in made : \A m \in made : m <= n))

\* A pass that finds the directory of a declared language missing and
\* does not make it.
EnsureLanguageDir_NoCreate(s, language, env) == s

\* The directory of a declared language is made when it is missing; a
\* failure to make it is an exception nothing catches.
EnsureLanguageDir(s, language, env) ==
    LET langPath == Append(projectsPath, language)
    IN  IF exists(s.tree, langPath) THEN s
        ELSE IF CanCreate(s.tree, langPath, env)
             THEN Say([s EXCEPT !.tree = create_directories(@, langPath)],
                      Msg("Created language directory", language, ""))
             ELSE [s EXCEPT !.tree = create_directories_failed(@, langPath, env),
                            !.exc = TRUE]

\* 1. Populate languages from JSON and ensure directories exist.
RECURSIVE LanguageDirsLoop(_, _, _)
LanguageDirsLoop(s, env, i) ==
    IF s.exc \/ i > Len(s.data.Languages) THEN s
    ELSE LET language == s.data.Languages[i]
             s1 == [s EXCEPT !.languages = Append(@, language)]
         IN  LanguageDirsLoop(EnsureLanguageDir(s1, language, env), env, i + 1)

LanguageDirs(s, env) ==
    IF s.data.hasLanguages
    THEN LanguageDirsLoop([s EXCEPT !.languages = <<>>], env, 1)
    ELSE s

\* A search of the languages vector that looks at its first entry only.
HasLanguage_FirstOnly(ls, lang) == Len(ls) > 0 /\ ls[1] = lang

\* std::find(languages.begin(), languages.end(), lang) != languages.end()
HasLanguage(ls, lang) == \E k \in 1..Len(ls) : ls[k] = lang

\* A scan that puts the directory it found in the languages vector and not
\* in the JSON data.
AddLanguage_MemoryOnly(s, langDir) ==
    Say([s EXCEPT !.languages = Append(@, langDir)],
        Msg("Added new language", langDir, ""))

\* A directory found under the root joins the vector and the JSON data.
AddLanguage(s, langDir) ==
    Say([s EXCEPT !.languages = Append(@, langDir),
                  !.data.hasLanguages = TRUE,
                  !.data.Languages = Append(@, langDir)],
        Msg("Added new language", langDir, ""))

\* 2. Scan projectsPath for language directories not in JSON.
RECURSIVE ScanLanguagesLoop(_, _, _)
ScanLanguagesLoop(s, entries, i) ==
    IF i > Len(entries) THEN s
    ELSE LET langDir == entries[i]
             s1 == IF HasLanguage(s.languages, langDir) THEN s
                   ELSE AddLanguage(s, langDir)
         IN  ScanLanguagesLoop(s1, entries, i + 1)

ScanLanguages(s, env) ==
    IF s.exc THEN s
    ELSE IF ~exists(s.tree, projectsPath) THEN [s EXCEPT !.exc = TRUE]
    ELSE ScanLanguagesLoop(s, SubDirs(s.tree, projectsPath, env.ord), 1)

\* 3. Populate projects from JSON.
ParseProject(projData, env) ==
    [name |-> projData.name,
     folderName |-> projData.folderName,
     lang |-> projData.lang,
     createdBy |-> projData.created_by,
     createdAt |-> parseTime(projData.created_at, env.clock),
     size |-> projData.size,
     usesGit |-> projData.git]

PopulateProjects(s, env) ==
    IF s.exc THEN s
    ELSE [s EXCEPT !.projects =
            IF s.data.hasProjects
            THEN [i \in 1..Len(s.data.Projects) |-> ParseProject(s.data.Projects[i], env)]
            ELSE <<>>]

\* A materializer that makes the language directory and not the project's.
CreateProject_ParentOnly(s, proj, env) ==
    LET langPath == Append(projectsPath, proj.lang)
    IN  Say([s EXCEPT !.tree = create_directories(@, langPath)],
            Msg("Created project directory", proj.lang, proj.folderName))

\* A materializer that lets the failure to make a directory leave the pass.
CreateProject_Uncaught(s, proj, env) ==
    LET projPath == ProjectPath(proj.lang, proj.folderName)
    IN  IF CanCreate(s.tree, projPath, env)
        THEN Say([s EXCEPT !.tree = create_directories(@, projPath)],
                 Msg("Created project directory", proj.lang, proj.folderName))
        ELSE [s EXCEPT !.exc = TRUE]

CreateProject(s, proj, env) ==
    LET projPath == ProjectPath(proj.lang, proj.folderName)
    IN  IF ~exists(s.tree, projPath)
        THEN IF CanCreate(s.tree, projPath, env)
             THEN Say([s EXCEPT !.tree = create_directories(@, projPath)],
                      Msg("Created project directory", proj.lang, proj.folderName))
             ELSE Say([s EXCEPT !.tree = create_directories_failed(@, projPath, env)],
                      Msg("Error creating project directory", proj.lang, proj.folderName))
        ELSE Say(s, Msg("Project directory already exists", proj.lang, proj.folderName))

\* 4. Ensure each project directory exists; if missing, create it.
RECURSIVE MaterializeLoop(_, _, _)
MaterializeLoop(s, env, i) ==
    IF i > Len(s.projects) THEN s
    ELSE LET proj == s.projects[i]
             s1 == [s EXCEPT !.users = @ \cup {proj.createdBy}]
             s2 == IF ~exists(s1.tree, ProjectPath(proj.lang, proj.folderName))
                   THEN CreateProject(s1, proj, env)
                   ELSE s1
         IN  MaterializeLoop(s2, env, i + 1)

Materialize(s, env) == IF s.exc THEN s ELSE MaterializeLoop(s, env, 1)
\* The first project of the vector with this folder and language gets the
\* values (the loop breaks at the first match).
UpdateFirstMatch(ps, language, folderName, currentSize, currentUsesGit) ==
    LET hits == { k \in 1..Len(ps) : ps[k].folderName = folderName /\ ps[k].lang = language }
    IN  IF hits = {} THEN ps
        ELSE LET k == CHOOSE x \in hits : \A y \in hits : x <= y
             IN  [ps EXCEPT ![k].size = currentSize, ![k].usesGit = currentUsesGit]

\* A refresh that writes the size and leaves the git flag as persisted.
RefreshRecord_SizeOnly(projData, currentSize, currentUsesGit) ==
    [projData EXCEPT !.size = currentSize]

\* A refresh that also writes the creation time again, from the parsed time.
RefreshRecord_Retime(projData, currentSize, currentUsesGit) ==
    [projData EXCEPT !.size = currentSize, !.git = currentUsesGit,
                     !.created_at = timeToString(parseTime(@, StartClock))]

\* The two fields a refresh assigns in the persisted record.
RefreshRecord(projData, currentSize, currentUsesGit) ==
    [projData EXCEPT !.size = currentSize, !.git = currentUsesGit]

\* 4.5. Update existing project data (size and Git status) from the filesystem.
RECURSIVE RefreshLoop(_, _)
RefreshLoop(s, i) ==
    IF i > Len(s.data.Projects) THEN s
    ELSE LET projData == s.data.Projects[i]
             projPath == ProjectPath(projData.lang, projData.folderName)
             currentSize == getFolderSize(s.tree, projPath)
             currentUsesGit == usesGit(s.tree, projPath)
             s1 == IF exists(s.tree, projPath)
                   THEN [s EXCEPT !.data.Projects[i] =
                                      RefreshRecord(@, currentSize, currentUsesGit),
                                  !.projects = UpdateFirstMatch(@, projData.lang,
                                      projData.folderName, currentSize, currentUsesGit)]
                   ELSE s
         IN  RefreshLoop(s1, i + 1)

Refresh(s, env) ==
    IF s.exc \/ ~s.data.hasProjects THEN s ELSE RefreshLoop(s, 1)

\* The path line 229 builds for a directory found on disk: HOME_PATH, then
\* projectsPath (which line 318 already made of HOME_PATH and the configured
\* path), then the language and the folder.
DiscoveredPath(language, folderName) ==
    HOME_PATH \o projectsPath \o <<language, folderName>>

NewProject(s, language, folderName, env) ==
    LET projectPath == DiscoveredPath(language, folderName)
    IN  [name |-> folderName,
         folderName |-> folderName,
         lang |-> language,
         createdBy |-> "unknown",
         createdAt |-> env.clock,
         size |-> getFolderSize(s.tree, projectPath),
         usesGit |-> usesGit(s.tree, projectPath)]

ProjectJson(proj) ==
    [name |-> proj.name,
     folderName |-> proj.folderName,
     lang |-> proj.lang,
     created_by |-> proj.createdBy,
     created_at |-> timeToString(proj.createdAt),
     size |-> proj.size,
     git |-> proj.usesGit]

PushProjectJson(data, projJson) ==
    [data EXCEPT !.hasProjects = TRUE, !.Projects = Append(@, projJson)]

\* A search of the known projects that compares the folder name alone.
Found_FolderOnly(ps, language, folderName) ==
    \E k \in 1..Len(ps) : ps[k].folderName = folderName

\* Whether the projects vector holds this folder of this language.
Found(ps, language, folderName) ==
    \E k \in 1..Len(ps) : ps[k].folderName = folderName /\ ps[k].lang = language

\* 5. For every language directory, add any project directory not listed.
RECURSIVE DiscoverFolders(_, _, _, _, _)
DiscoverFolders(s, env, language, entries, j) ==
    IF j > Len(entries) THEN s
    ELSE LET folderName == entries[j]
             found == Found(s.projects, language, folderName)
             newProj == NewProject(s, language, folderName, env)
             s1 == IF found THEN s
                   ELSE Say([s EXCEPT !.projects = Append(@, newProj),
                                      !.data = PushProjectJson(@, ProjectJson(newProj))],
                            Msg("Added new project", language, folderName))
         IN  DiscoverFolders(s1, env, language, entries, j + 1)

RECURSIVE DiscoverLoop(_, _, _)
DiscoverLoop(s, env, i) ==
    IF i > Len(s.languages) THEN s
    ELSE LET language == s.languages[i]
             langPath == Append(projectsPath, language)
             s1 == IF ~exists(s.tree, langPath) THEN s
                   ELSE DiscoverFolders(s, env, language, SubDirs(s.tree, langPath, env.ord), 1)
         IN  DiscoverLoop(s1, env, i + 1)

\* A discovery that goes over the languages the registry declared and not
\* over those the scan of this pass added.
Discover_DeclaredOnly(s, env) ==
    IF s.exc THEN s
    ELSE LET declared == SelectSeq(s.languages,
                 LAMBDA l : Msg("Added new language", l, "") \notin s.report)
             r == DiscoverLoop([s EXCEPT !.languages = declared], env, 1)
         IN  [r EXCEPT !.languages = s.languages]

Discover(s, env) == IF s.exc THEN s ELSE DiscoverLoop(s, env, 1)

SeqRange(q) == { q[k] : k \in 1..Len(q) }

\* The members of a std::set<std::string>, in its iteration order.
SetInOrder(S) == SelectSeq(UserOrder, LAMBDA u : u \in S)

\* A rebuild that does not clear the persisted list before it appends the
\* members of the set.
RebuildUsers_NoClear(s, env) ==
    IF s.exc \/ ~s.data.hasUsers THEN s
    ELSE LET all == s.users \cup SeqRange(s.data.Users)
         IN  [s EXCEPT !.users = all, !.data.Users = @ \o SetInOrder(all)]

\* 6. Update users from JSON.
RebuildUsers(s, env) ==
    IF s.exc \/ ~s.data.hasUsers THEN s
    ELSE LET all == s.users \cup SeqRange(s.data.Users)
         IN  [s EXCEPT !.users = all, !.data.Users = SetInOrder(all)]

\* A write-back that, when the file does not open, puts the in-memory
\* registry back to what the file holds.
WriteBack_Rollback(s, env) ==
    IF s.exc THEN s
    ELSE IF env.writable THEN [s EXCEPT !.file = s.data]
    ELSE Say([s EXCEPT !.data = s.file], Msg("Unable to write to DevMap file", "", ""))

\* 7. Write the updated JSON back to the file.
WriteBack(s, env) ==
    IF s.exc THEN s
    ELSE IF env.writable THEN [s EXCEPT !.file = s.data]
    ELSE Say(s, Msg("Unable to write to DevMap file", "", ""))

\* Phases 1 to 4, what comes before the probes of phase 4.5.
PassHead(s, env) ==
    LET s0 == [s EXCEPT !.users = {}]
        s1 == LanguageDirs(s0, env)
        s2 == ScanLanguages(s1, env)
        s3 == PopulateProjects(s2, env)
    IN  Materialize(s3, env)

\* Phases 5 to 7, what comes after them.
PassTail(s, env) ==
    LET s6 == Discover(s, env)
        s7 == RebuildUsers(s6, env)
    IN  WriteBack(s7, env)

SyncResult(s, env) == PassTail(Refresh(PassHead(s, env), env), env)
\* ------------------------------------------------------- CreateLang
WriteFile(s, env, okMsg, errMsg) ==
    IF env.writable
    THEN (IF okMsg = "" THEN [s EXCEPT !.file = s.data]
          ELSE Say([s EXCEPT !.file = s.data], Msg(okMsg, "", "")))
    ELSE Say(s, Msg(errMsg, "", ""))

CreateLangResult(s, lang, env) ==
    IF HasLanguage(s.languages, lang)
    THEN Say(s, Msg("Language already exists", lang, ""))
    ELSE LET langPath == Append(projectsPath, lang)
             s1 == [s EXCEPT !.languages = Append(@, lang)]
             s2 == IF exists(s1.tree, langPath) THEN s1
                   ELSE IF CanCreate(s1.tree, langPath, env)
                        THEN Say([s1 EXCEPT !.tree = create_directories(@, langPath)],
                                 Msg("Created language directory", lang, ""))
                        ELSE [s1 EXCEPT !.tree = create_directories_failed(@, langPath, env),
                                        !.exc = TRUE]
             s3 == Say([s2 EXCEPT !.data.hasLanguages = TRUE,
                                  !.data.Languages = Append(@, lang)],
                       Msg("Added language to DevMap", lang, ""))
         IN  IF s2.exc THEN s2
             ELSE WriteFile(s3, env, "DevMap updated successfully",
                            "Unable to write updated DevMap")

\* ---------------------------------------------- CreateProjectWizard
TemplateDir == "src"     \* the directory a project template holds
TemplateBytes == 40      \* the bytes of the files in it
GitInitBytes == 200      \* the bytes of the files git init writes

\* "Use GitHub naming conventions": lower case, spaces to hyphens, other
\* characters dropped, on the project names of the model.
GithubFolderName(projectName) ==
    CASE projectName = "Foo" -> "foo"
      [] projectName = "Svc" -> "svc"
      [] OTHER -> projectName

\* fs::copy(templatePath, projectPath, recursive | overwrite_existing)
CopyTemplate(t, projectPath) ==
    IF ~exists(t, projectPath) THEN t
    ELSE [create_directories(t, Append(projectPath, TemplateDir))
            EXCEPT ![Append(projectPath, TemplateDir)] = TemplateBytes]

\* cd projectPath && git init
GitInit(t, projectPath) ==
    IF ~exists(t, projectPath) \/ usesGit(t, projectPath) THEN t
    ELSE [create_directories(t, Append(projectPath, GitDir))
            EXCEPT ![Append(projectPath, GitDir)] = GitInitBytes]

\* Steps 2 to 10 of the wizard, once the language is settled.
WizardProject(s, inp, env) ==
    LET projectFolderName == IF inp.useNamingConvention
                             THEN GithubFolderName(inp.projectName)
                             ELSE inp.customFolder
        projectPath == ProjectPath(inp.projectLang, projectFolderName)
        proj0 == [name |-> inp.projectName,
                  folderName |-> projectFolderName,
                  lang |-> inp.projectLang,
                  createdBy |-> "current_user",
                  createdAt |-> env.clock,
                  size |-> 0,
                  usesGit |-> inp.initGit]
        s1 == CreateProject(s, proj0, env)
        s2 == IF inp.useTemplate
              THEN [s1 EXCEPT !.tree = CopyTemplate(@, projectPath)]
              ELSE s1
        newProj == IF inp.useTemplate
                   THEN [proj0 EXCEPT !.size = getFolderSize(s2.tree, projectPath)]
                   ELSE proj0
        s3 == IF inp.initGit
              THEN [s2 EXCEPT !.tree = GitInit(@, projectPath)]
              ELSE s2
    IN  Say([s3 EXCEPT !.data = PushProjectJson(@, ProjectJson(newProj))],
            Msg("Project created successfully", inp.projectLang, projectFolderName))

WizardResult(s, inp, env) ==
    IF HasLanguage(s.languages, inp.projectLang)
    THEN WizardProject(s, inp, env)
    ELSE IF inp.createLang
         THEN LET s1 == CreateLangResult(s, inp.projectLang, env)
              IN  IF s1.exc THEN s1 ELSE WizardProject(s1, inp, env)
         ELSE Say(s, Msg("Project creation cancelled", inp.projectLang, ""))
\* ------------------------------------------------------ the start state
\* What the directories of the start tree hold, by folder name: foo has
\* 1500 bytes of files and no repository, svc has 300 bytes of files and a
\* repository of GitInitBytes bytes.
FooBytes == 1500
StaleBytes == 7
SvcBytes == 300

StartDirs(present) ==
    {HOME_PATH, projectsPath}
    \cup { Append(projectsPath, lf[1]) : lf \in present }
    \cup { ProjectPath(lf[1], lf[2]) : lf \in { x \in present : x[2] # "" } }
    \cup { Append(ProjectPath(lf[1], lf[2]), GitDir) : lf \in { x \in present : x[2] = "svc" } }

StartBytes(d) ==
    IF Len(d) = Len(projectsPath) + 2
    THEN (IF d[Len(d)] = "foo" THEN FooBytes ELSE SvcBytes)
    ELSE IF Len(d) = Len(projectsPath) + 3 THEN GitInitBytes
    ELSE 0

\* present: pairs <<lang, folder>>, folder "" standing for the language
\* directory on its own.
StartTree(present) == [d \in StartDirs(present) |-> StartBytes(d)]

StartTrees ==
    { StartTree(present) : present \in
        { q \in SUBSET (Langs \X (Folders \cup {""})) :
            Cardinality({ x \in q : x[2] # "" }) <= MaxDirs } }
    \cup { << >> }

SeqsUpTo(S, n) == UNION { [1..k -> S] : k \in 0..n }

DisplayName(folder) == IF folder = "foo" THEN "Foo" ELSE "Svc"

\* The records a registry file declares at the start.  What they say of
\* size and repository is out of date whatever the tree holds: svc is
\* declared with 7 bytes, no repository and a created_at that does not
\* parse, foo with 7 bytes, a repository and a well-formed created_at.
DeclaredRecords ==
    { [name |-> DisplayName(f), folderName |-> f, lang |-> l, created_by |-> "alice",
       created_at |-> IF f = "svc" THEN Garbage ELSE timeToString(0),
       size |-> StaleBytes,
       git |-> (f = "foo")] : l \in Langs, f \in Folders }

StartFiles ==
    { [hasLanguages |-> hl, Languages |-> ls,
       hasProjects |-> hp, Projects |-> ps,
       hasUsers |-> hu, Users |-> us] :
         hl \in BOOLEAN, ls \in SeqsUpTo(Langs, MaxLanguages),
         hp \in BOOLEAN, ps \in SeqsUpTo(DeclaredRecords, MaxDeclared),
         hu \in BOOLEAN, us \in {<<>>, <<"bob">>} }

StartFileOk(f) ==
    /\ (~f.hasLanguages => f.Languages = <<>>)
    /\ (~f.hasProjects => f.Projects = <<>>)
    /\ (f.hasUsers <=> f.Users # <<>>)

\* No pass is between two probes.
Idle == [stage |-> "idle", i |-> 0, size |-> 0]

Init ==
    /\ tree \in StartTrees
    /\ file \in { f \in StartFiles : StartFileOk(f) }
    /\ devmapData = NullJson
    /\ languages = <<>>
    /\ users = {}
    /\ projects = <<>>
    /\ now = StartClock
    /\ last = "start"
    /\ report = {}
    /\ denied = {}
    /\ writable = TRUE
    /\ probe = Idle

\* ------------------------------------------------------------- actions
Cur ==
    [tree |-> tree, file |-> file, data |-> devmapData, languages |-> languages,
     users |-> users, projects |-> projects, report |-> {}, exc |-> FALSE]

Returns(r, op) ==
    /\ tree' = r.tree
    /\ file' = r.file
    /\ devmapData' = r.data
    /\ languages' = r.languages
    /\ users' = r.users
    /\ projects' = r.projects
    /\ report' = r.report
    /\ last' = IF r.exc THEN "terminated" ELSE op
    /\ UNCHANGED <<now, denied, writable, probe>>

\* The surroundings of an operation.
Env(ord) == [ord |-> ord, clock |-> now, denied |-> denied, writable |-> writable]

Envs == { Env(ord) : ord \in DirOrders }

\* No directory is listed by CreateLang and the wizard.
EnvsNoScan == { Env(<<>>) }

Loaded == last \in {"load", "syncDevMap", "CreateLang", "CreateProjectWizard", "Repair"}

\* A load that goes on to synchronise although the file did not open or
\* did not parse.
LoadResult_SyncAnyway(s, opens, env) == SyncResult(s, env)

\* load: false when the file does not open or does not parse, else the
\* parsed file becomes devmapData and a pass runs.
LoadResult(s, opens, env) ==
    IF opens THEN SyncResult([s EXCEPT !.data = s.file], env) ELSE s

load ==
    /\ last = "start"
    /\ \E opens \in BOOLEAN, env \in Envs :
          Returns(LoadResult(Cur, opens, env), IF opens THEN "load" ELSE "load failed")

syncDevMap ==
    /\ Loaded
    /\ \E env \in Envs : Returns(SyncResult(Cur, env), "syncDevMap")

CreateLang ==
    /\ Loaded
    /\ \E lang \in Langs, env \in EnvsNoScan : Returns(CreateLangResult(Cur, lang, env), "CreateLang")

\* The answers given to the wizard.  The project is named "Svc"; either its
\* folder follows the naming convention (svc) and it becomes a repository,
\* or it gets the custom folder foo and a template.
WizardInputs ==
    { [projectLang |-> l, createLang |-> c, projectName |-> "Svc",
       useNamingConvention |-> a, customFolder |-> "foo",
       initGit |-> a, useTemplate |-> ~a] : l \in Langs, c \in BOOLEAN, a \in BOOLEAN }

CreateProjectWizard ==
    /\ Loaded
    /\ Len(devmapData.Projects) < MaxRecords
    /\ \E inp \in WizardInputs, env \in EnvsNoScan :
          Returns(WizardResult(Cur, inp, env), "CreateProjectWizard")

Next == load \/ syncDevMap \/ CreateLang \/ CreateProjectWizard

Spec == Init /\ [][Next]_vars
\* ------------------------------------------------------------ the claims
\* What the claims speak of, said without the operators of the program.
AfterSync == last \in {"load", "syncDevMap"}

\* A step in which a pass ran to its end.
SyncStep == last' \in {"load", "syncDevMap"}

\* The registry a pass starts from: the file at load, devmapData later.
PreRegistry == IF last = "start" THEN file ELSE devmapData

DirOf(rec) == <<"home", "projects", rec.lang, rec.folderName>>

Under(t, p) ==
    { d \in DOMAIN t : Len(d) >= Len(p) /\ \A k \in 1..Len(p) : d[k] = p[k] }

RECURSIVE Total(_, _)
Total(t, ds) ==
    IF ds = {} THEN 0
    ELSE LET d == CHOOSE x \in ds : TRUE IN t[d] + Total(t, ds \ {d})

\* The bytes of all regular files under p, and whether p holds a .git directory.
BytesUnder(t, p) == Total(t, Under(t, p))
HasRepository(t, p) == (p \o <<".git">>) \in DOMAIN t

Keys(recs) == { <<recs[k].lang, recs[k].folderName>> : k \in 1..Len(recs) }
WithKey(recs, l, f) == { k \in 1..Len(recs) : recs[k].lang = l /\ recs[k].folderName = f }

\* C1: a second pass with nothing changed in between leaves the registry
\* content (Languages, Projects, Users) as the first pass left it.
C1_Idempotent ==
    AfterSync =>
        \A ord \in DirOrders :
            LET again == SyncResult(Cur, Env(ord))
            IN  again.data = devmapData /\ again.file = file
\* C2: after a pass, every record the registry held before the pass whose
\* directory exists has as persisted size the bytes of all regular files
\* under that directory and as persisted git flag the presence of .git in
\* it, whatever was persisted before.
C2_DeclaredRefreshed ==
    [][SyncStep =>
        \A i \in 1..Len(PreRegistry.Projects) :
            LET dir == DirOf(PreRegistry.Projects[i])
            IN  dir \in DOMAIN tree' =>
                  /\ devmapData'.Projects[i].size = BytesUnder(tree', dir)
                  /\ devmapData'.Projects[i].git = HasRepository(tree', dir)
                  /\ file'.Projects[i] = devmapData'.Projects[i]]_vars

\* A pass has refreshed a declared record of svc: the file said 7 bytes and
\* no repository, and now says what the directory holds.
C2_Witness ==
    /\ AfterSync
    /\ \E i \in 1..Len(file.Projects) :
          /\ file.Projects[i].created_by = "alice"
          /\ file.Projects[i].folderName = "svc"
          /\ file.Projects[i].size = SvcBytes + GitInitBytes
          /\ file.Projects[i].git

\* The records a pass has just added for directories found on disk.
Discovered ==
    { k \in 1..Len(devmapData.Projects) :
        Msg("Added new project", devmapData.Projects[k].lang,
            devmapData.Projects[k].folderName) \in report }

\* C3: the size and git flag recorded for a directory found on disk are,
\* in the pass that registers it, those of that very directory.
C3_DiscoveredProbed ==
    AfterSync =>
        \A k \in Discovered :
            /\ devmapData.Projects[k].size = BytesUnder(tree, DirOf(devmapData.Projects[k]))
            /\ devmapData.Projects[k].git = HasRepository(tree, DirOf(devmapData.Projects[k]))

\* C4: after a pass, every directory directly under a language directory
\* whose (lang, folderName) was not declared is a Project exactly once, in
\* memory and persisted, with name = folderName and createdBy "unknown".
C4_DiscoveryComplete ==
    [][SyncStep =>
        \A l \in Langs, f \in Folders :
            (/\ <<"home", "projects", l, f>> \in DOMAIN tree
             /\ <<l, f>> \notin Keys(PreRegistry.Projects))
            => /\ Cardinality(WithKey(devmapData'.Projects, l, f)) = 1
               /\ Cardinality(WithKey(file'.Projects, l, f)) = 1
               /\ Cardinality(WithKey(projects', l, f)) = 1
               /\ \A k \in WithKey(devmapData'.Projects, l, f) :
                     /\ devmapData'.Projects[k].name = f
                     /\ devmapData'.Projects[k].created_by = "unknown"
                     /\ file'.Projects[k] = devmapData'.Projects[k]
               /\ \A k \in WithKey(projects', l, f) :
                     projects'[k].name = f /\ projects'[k].createdBy = "unknown"]_vars

\* A pass has registered the undeclared directory Python/foo next to a
\* declared project with the same folder name in Go.
C4_Witness ==
    /\ AfterSync
    /\ Msg("Added new project", "Python", "foo") \in report
    /\ \E k \in 1..Len(devmapData.Projects) :
          /\ devmapData.Projects[k].lang = "Go"
          /\ devmapData.Projects[k].folderName = "foo"
          /\ devmapData.Projects[k].created_by = "alice"

\* C5: after a pass, the user set is the createdBy values of all Projects of
\* the registry together with the users persisted before the pass.
C5_UsersAreUnion ==
    [][SyncStep =>
        users' = { projects'[k].createdBy : k \in 1..Len(projects') }
                 \cup { PreRegistry.Users[k] : k \in 1..Len(PreRegistry.Users) }]_vars

\* C6: after a pass, the directory of every Project of the registry exists,
\* and a project whose directory the pass created is persisted with size 0
\* and git false.
C6_Materialized ==
    AfterSync =>
        \A k \in 1..Len(devmapData.Projects) :
            LET rec == devmapData.Projects[k]
            IN  /\ DirOf(rec) \in DOMAIN tree
                /\ file.Projects[k] = rec
                /\ Msg("Created project directory", rec.lang, rec.folderName) \in report
                     => rec.size = 0 /\ ~rec.git

\* A pass has created the directory of a declared project.
C6_Witness ==
    /\ AfterSync
    /\ \E k \in 1..Len(devmapData.Projects) :
          /\ Msg("Created project directory", devmapData.Projects[k].lang,
                 devmapData.Projects[k].folderName) \in report
          /\ devmapData.Projects[k].created_by = "alice"

\* C7: no (lang, folderName) pair occurs in more than one persisted Project
\* record, after any passes and any runs of the wizard.
C7_UniqueKeys ==
    /\ \A l \in Langs, f \in Folders : Cardinality(WithKey(devmapData.Projects, l, f)) <= 1
    /\ \A l \in Langs, f \in Folders : Cardinality(WithKey(file.Projects, l, f)) <= 1

\* C8: a pass removes no Project record and no Language: the lists before
\* the pass are prefixes of the lists after it, but for size and git of the
\* records.
C8_AppendOnly ==
    [][SyncStep =>
        \A reg \in {devmapData', file'} :
            /\ Len(PreRegistry.Languages) <= Len(reg.Languages)
            /\ \A k \in 1..Len(PreRegistry.Languages) :
                  reg.Languages[k] = PreRegistry.Languages[k]
            /\ Len(PreRegistry.Projects) <= Len(reg.Projects)
            /\ \A k \in 1..Len(PreRegistry.Projects) :
                  /\ reg.Projects[k].name = PreRegistry.Projects[k].name
                  /\ reg.Projects[k].folderName = PreRegistry.Projects[k].folderName
                  /\ reg.Projects[k].lang = PreRegistry.Projects[k].lang
                  /\ reg.Projects[k].created_by = PreRegistry.Projects[k].created_by
                  /\ reg.Projects[k].created_at = PreRegistry.Projects[k].created_at]_vars

\* A pass has kept the record of a project whose directory was missing, with
\* its created_at that does not parse, and has added a language it found.
C8_Witness ==
    /\ AfterSync
    /\ \E k \in 1..Len(file.Projects) :
          /\ Msg("Created project directory", file.Projects[k].lang,
                 file.Projects[k].folderName) \in report
          /\ file.Projects[k].created_at = Garbage
    /\ \E l \in Langs : Msg("Added new language", l, "") \in report

\* C9: when syncDevMap, CreateLang or CreateProjectWizard returns, the
\* registry file holds the in-memory registry.
C9_WrittenBack ==
    last \in {"load", "syncDevMap", "CreateLang", "CreateProjectWizard"}
        => file = devmapData

\* C10: after a pass every Language of the registry has its directory under
\* the projects root, and a declared Language whose directory the pass had
\* to create is still in the Languages list.
C10_LanguageDirs ==
    AfterSync =>
        /\ \A k \in 1..Len(devmapData.Languages) :
              <<"home", "projects", devmapData.Languages[k]>> \in DOMAIN tree
        /\ \A k \in 1..Len(languages) :
              <<"home", "projects", languages[k]>> \in DOMAIN tree
        /\ file.Languages = devmapData.Languages
        /\ \A l \in Langs :
              Msg("Created language directory", l, "") \in report
                 => (\E k \in 1..Len(file.Languages) : file.Languages[k] = l)

\* A pass has created the directory of a declared language.
C10_Witness ==
    /\ AfterSync
    /\ \E l \in Langs :
          /\ Msg("Created language directory", l, "") \in report
          /\ <<"home", "projects", l>> \in DOMAIN tree

\* ------------------------------------------- passes run again and again

\* Only load and syncDevMap run, so nothing but a pass changes the tree, and
\* a pass that can run does run.
NextPasses == load \/ syncDevMap

\* A pass is due: it can run and running it changes the state.  This is
\* ENABLED <<syncDevMap>>_vars written as a state predicate.
PassDue ==
    /\ Loaded
    /\ \/ last # "syncDevMap"
       \/ \E env \in Envs :
             LET r == SyncResult(Cur, env)
             IN  \/ r.exc
                 \/ <<r.tree, r.file, r.data, r.languages, r.users, r.projects, r.report>>
                       # <<tree, file, devmapData, languages, users, projects, report>>

\* Weak fairness of syncDevMap: a pass that stays due is run.
PassesKeepRunning == <>[]PassDue => []<><<syncDevMap>>_vars

SpecPasses == Init /\ [][NextPasses]_vars /\ WF_vars(load) /\ PassesKeepRunning

InLanguages(l) ==
    /\ HasLanguage(languages, l)
    /\ HasLanguage(devmapData.Languages, l)
    /\ HasLanguage(file.Languages, l)

\* C11: when passes keep being run and nothing else changes the tree, every
\* directory directly under the projects root comes to be in the Languages
\* list (in memory and persisted) and stays there, a language directory
\* that a pass made while materializing a project included.
C11_LanguagesComplete ==
    /\ \A l \in Langs :
          (Loaded /\ <<"home", "projects", l>> \in DOMAIN tree) ~> InLanguages(l)
    /\ [][\A l \in Langs : (Loaded /\ InLanguages(l)) => InLanguages(l)']_vars

\* A second pass has added the language whose directory the pass before it
\* made for a declared project.
C11_Witness ==
    /\ last = "syncDevMap"
    /\ \E l \in Langs :
          /\ Msg("Added new language", l, "") \in report
          /\ InLanguages(l)
          /\ \E k \in 1..Len(devmapData.Projects) : devmapData.Projects[k].lang = l

\* ------------------------------------------------ the Languages list

NoDuplicates(ls) == \A j, k \in 1..Len(ls) : ls[j] = ls[k] => j = k

\* C12: from a duplicate-free Languages list, syncDevMap, CreateLang and the
\* wizard's own CreateLang leave the list (in memory and persisted) without
\* an identifier listed twice, and the languages that were present keep
\* their places in front of the ones added.
C12_LanguagesUnique ==
    [][(/\ last' \in {"load", "syncDevMap", "CreateLang", "CreateProjectWizard"}
        /\ NoDuplicates(PreRegistry.Languages)
        /\ NoDuplicates(languages)
        /\ NoDuplicates(file.Languages))
       => /\ NoDuplicates(languages')
          /\ NoDuplicates(devmapData'.Languages)
          /\ NoDuplicates(file'.Languages)
          /\ IsPrefix(PreRegistry.Languages, devmapData'.Languages)
          /\ IsPrefix(PreRegistry.Languages, languages')
          /\ IsPrefix(file.Languages, file'.Languages)]_vars

\* CreateLang has added a language to a list that had one in it.
C12_Witness ==
    /\ last = "CreateLang"
    /\ Len(languages) >= 2
    /\ NoDuplicates(languages)
    /\ \E l \in Langs : Msg("Added language to DevMap", l, "") \in report

\* ------------------------------------------- a file system that refuses

\* What can be refused: the directory of the language Go, the directory of
\* the project Go/svc, the opening of the registry file for writing.
Faults ==
    { [denied |-> {Append(projectsPath, "Go")}, writable |-> TRUE],
      [denied |-> {ProjectPath("Go", "svc")}, writable |-> TRUE],
      [denied |-> {}, writable |-> FALSE] }

\* The registry files of this specification declare projects of one
\* language, one more of them than MaxDeclared, and no Users.
FaultRecords == { r \in DeclaredRecords : r.lang = "Go" }

FaultFiles ==
    { [hasLanguages |-> hl, Languages |-> ls,
       hasProjects |-> hp, Projects |-> ps,
       hasUsers |-> FALSE, Users |-> <<>>] :
         hl \in BOOLEAN, ls \in SeqsUpTo(Langs, MaxLanguages),
         hp \in BOOLEAN, ps \in SeqsUpTo(FaultRecords, MaxDeclared + 1) }

InitFaults ==
    /\ tree \in StartTrees
    /\ file \in { f \in FaultFiles : StartFileOk(f) }
    /\ devmapData = NullJson
    /\ languages = <<>>
    /\ users = {}
    /\ projects = <<>>
    /\ now = StartClock
    /\ last = "start"
    /\ report = {}
    /\ \E f \in Faults : denied = f.denied /\ writable = f.writable
    /\ probe = Idle

\* Someone outside the program puts right what the file system refused.
Repair ==
    /\ Loaded
    /\ denied # {} \/ ~writable
    /\ denied' = {}
    /\ writable' = TRUE
    /\ last' = "Repair"
    /\ UNCHANGED <<tree, file, devmapData, languages, users, projects, now, report, probe>>

NextFaults == load \/ syncDevMap \/ Repair

SpecFaults == InitFaults /\ [][NextFaults]_vars

\* A step in which load, having parsed the file, or syncDevMap ran a pass,
\* to its end or not.
PassStep ==
    /\ last' \in {"load", "syncDevMap", "terminated"}
    /\ denied' = denied /\ writable' = writable

\* The pass about to run cannot make this directory, which is missing.
Refused(p) == p \notin DOMAIN tree /\ Missing(tree, p) \cap denied # {}

\* C13: when a pass fails to make the directory of a declared language, it
\* goes on through the remaining phases to the write of the file, and says
\* of that language that its directory could not be made.
C13_LanguageFailureIsolated ==
    [][(/\ PassStep
        /\ \E k \in 1..Len(PreRegistry.Languages) :
              Refused(Append(projectsPath, PreRegistry.Languages[k])))
       => /\ last' # "terminated"
          /\ file' = devmapData'
          /\ Len(projects') >= Len(PreRegistry.Projects)
          /\ \A k \in 1..Len(PreRegistry.Languages) :
                Refused(Append(projectsPath, PreRegistry.Languages[k]))
                   => \E m \in report' :
                         /\ m.lang = PreRegistry.Languages[k]
                         /\ m.folder = ""
                         /\ m.msg \notin {"Created language directory",
                                          "Added new language"}]_vars

\* The pass about to run gets as far as its phase 4.
ReachesMaterialize ==
    /\ projectsPath \in DOMAIN tree \/ PreRegistry.Languages # <<>>
    /\ \A k \in 1..Len(PreRegistry.Languages) :
          ~Refused(Append(projectsPath, PreRegistry.Languages[k]))

\* C14: when a pass fails to make the directory of a declared project, it
\* still runs every later phase and writes the file; the other declared
\* projects have their directories and fresh size and git, and the failed
\* project's size and git, in memory and persisted, are those it had before
\* the pass.
C14_ProjectFailureIsolated ==
    [][(/\ PassStep
        /\ ReachesMaterialize
        /\ \E k \in 1..Len(PreRegistry.Projects) : Refused(DirOf(PreRegistry.Projects[k])))
       => /\ last' # "terminated"
          /\ writable => file' = devmapData'
          /\ Len(projects') >= Len(PreRegistry.Projects)
          /\ \A k \in 1..Len(PreRegistry.Projects) :
                LET rec == PreRegistry.Projects[k]
                IN  IF Refused(DirOf(rec))
                    THEN /\ Msg("Error creating project directory", rec.lang,
                                rec.folderName) \in report'
                         /\ DirOf(rec) \notin DOMAIN tree'
                         /\ devmapData'.Projects[k].size = rec.size
                         /\ devmapData'.Projects[k].git = rec.git
                         /\ projects'[k].size = rec.size
                         /\ projects'[k].usesGit = rec.git
                    ELSE /\ DirOf(rec) \in DOMAIN tree'
                         /\ devmapData'.Projects[k].size = BytesUnder(tree', DirOf(rec))
                         /\ devmapData'.Projects[k].git = HasRepository(tree', DirOf(rec))
                         /\ rec.created_by \in users']_vars

\* A pass has failed to make the directory of one declared project, has
\* made that of another and has written the file.
C14_Witness ==
    /\ AfterSync
    /\ file = devmapData
    /\ \E j, k \in 1..Len(devmapData.Projects) :
          /\ Msg("Error creating project directory", devmapData.Projects[k].lang,
                 devmapData.Projects[k].folderName) \in report
          /\ DirOf(devmapData.Projects[k]) \notin DOMAIN tree
          /\ Msg("Created project directory", devmapData.Projects[j].lang,
                 devmapData.Projects[j].folderName) \in report
          /\ DirOf(devmapData.Projects[j]) \in DOMAIN tree

\* ---------------------------------- a pass taken one probe at a time

\* The program state between two steps of a pass.
Mid == [Cur EXCEPT !.report = report]

Becomes(r) ==
    /\ tree' = r.tree
    /\ file' = r.file
    /\ devmapData' = r.data
    /\ languages' = r.languages
    /\ users' = r.users
    /\ projects' = r.projects
    /\ report' = r.report

ProbedPath ==
    ProjectPath(devmapData.Projects[probe.i].lang, devmapData.Projects[probe.i].folderName)

\* load parses the file and the pass runs phases 1 to 4.
BeginPass ==
    /\ last = "start"
    /\ \E env \in Envs :
          LET r == PassHead([Cur EXCEPT !.data = file], env)
          IN  /\ Becomes(r)
              /\ last' = IF r.exc THEN "terminated" ELSE "probing"
              /\ probe' = IF r.exc THEN Idle ELSE [stage |-> "exists", i |-> 1, size |-> 0]
    /\ UNCHANGED <<now, denied, writable>>

\* Line 184: the directory of the next record is looked for.
ProbeExists ==
    /\ last = "probing" /\ probe.stage = "exists"
    /\ probe.i <= Len(devmapData.Projects)
    /\ probe' = IF exists(tree, ProbedPath) THEN [probe EXCEPT !.stage = "size"]
                ELSE [probe EXCEPT !.i = @ + 1]
    /\ UNCHANGED <<tree, file, devmapData, languages, users, projects, now, last,
                   report, denied, writable>>

\* Lines 75 to 77: getFolderSize looks for the directory again and opens
\* the iterator on it; a directory that is gone has size 0.
ProbeSizeOpen ==
    /\ last = "probing" /\ probe.stage = "size"
    /\ probe' = IF exists(tree, ProbedPath)
                THEN [probe EXCEPT !.stage = "walk", !.size = getFolderSize(tree, ProbedPath)]
                ELSE [probe EXCEPT !.stage = "git", !.size = 0]
    /\ UNCHANGED <<tree, file, devmapData, languages, users, projects, now, last,
                   report, denied, writable>>

\* Lines 77 to 83: the walk.  When the directory went while it was walked,
\* the iterator or file_size throws filesystem_error, which nothing
\* catches, or the walk ends with what it had summed by then: nothing, or
\* all there was.
ProbeWalk ==
    /\ last = "probing" /\ probe.stage = "walk"
    /\ IF exists(tree, ProbedPath)
       THEN /\ probe' = [probe EXCEPT !.stage = "git", !.size = getFolderSize(tree, ProbedPath)]
            /\ UNCHANGED last
       ELSE \/ /\ probe' = Idle
               /\ last' = "terminated"
            \/ /\ \E n \in {0, probe.size} : probe' = [probe EXCEPT !.stage = "git", !.size = n]
               /\ UNCHANGED last
    /\ UNCHANGED <<tree, file, devmapData, languages, users, projects, now,
                   report, denied, writable>>

\* Lines 188 to 200: usesGit, then both records are assigned.
ProbeStore ==
    /\ last = "probing" /\ probe.stage = "git"
    /\ LET currentUsesGit == usesGit(tree, ProbedPath)
           projData == devmapData.Projects[probe.i]
       IN  /\ devmapData' = [devmapData EXCEPT !.Projects[probe.i] =
                                RefreshRecord(@, probe.size, currentUsesGit)]
           /\ projects' = UpdateFirstMatch(projects, projData.lang, projData.folderName,
                                           probe.size, currentUsesGit)
    /\ probe' = [stage |-> "exists", i |-> probe.i + 1, size |-> 0]
    /\ UNCHANGED <<tree, file, languages, users, now, last, report, denied, writable>>

\* Phases 5 to 7 end the pass.
EndPass ==
    /\ last = "probing" /\ probe.stage = "exists"
    /\ probe.i > Len(devmapData.Projects)
    /\ \E env \in Envs :
          LET r == PassTail(Mid, env)
          IN  /\ Becomes(r)
              /\ last' = IF r.exc THEN "terminated" ELSE "load"
    /\ probe' = Idle
    /\ UNCHANGED <<now, denied, writable>>

\* Someone outside the program removes the directory being probed, between
\* the look for it and the walk or during the walk.
Remove ==
    /\ last = "probing" /\ probe.stage \in {"size", "walk"}
    /\ exists(tree, ProbedPath)
    /\ tree' = [d \in DOMAIN tree \ Under(tree, ProbedPath) |-> tree[d]]
    /\ UNCHANGED <<file, devmapData, languages, users, projects, now, last, report,
                   denied, writable, probe>>

NextRace ==
    BeginPass \/ ProbeExists \/ ProbeSizeOpen \/ ProbeWalk \/ ProbeStore \/ EndPass \/ Remove

SpecRace == Init /\ [][NextRace]_vars

\* C15: when the directory being probed is removed between the existence
\* check and the walk, or during the walk, the pass takes its size for 0,
\* records no repository and goes on.
C15_ProbeToleratesRemoval ==
    [][(/\ last = "probing"
        /\ probe.stage \in {"size", "walk"}
        /\ ~exists(tree, ProbedPath)
        /\ probe' # probe)
       => /\ last' = "probing"
          /\ probe'.stage = "git"
          /\ probe'.size = 0
          /\ ~usesGit(tree', ProbedPath)]_vars

\* ----------------------------------------------- a file that does not load

\* C16: a load that cannot open or parse the registry file returns false
\* and runs no pass: it makes no directory, puts no language, project or
\* user in memory and leaves the file as it was.
C16_FailedLoadInert ==
    [][last' = "load failed"
       => /\ tree' = tree
          /\ file' = file
          /\ languages' = <<>>
          /\ projects' = <<>>
          /\ users' = {}
          /\ report' = {}]_vars

\* A load has failed where a pass would have had a directory to make and a
\* language to add.
C16_Witness ==
    /\ last = "load failed"
    /\ \E l \in Langs : Append(projectsPath, l) \in DOMAIN tree /\ ~HasLanguage(file.Languages, l)
    /\ \E k \in 1..Len(file.Projects) : DirOf(file.Projects[k]) \notin DOMAIN tree

\* The state a pass starts from.
PassStart == IF last = "start" THEN [Cur EXCEPT !.data = file] ELSE Cur

\* C17: when the registry file does not open for writing at the end of a
\* pass, that is reported and nothing else differs: the tree and the
\* in-memory Languages, Projects and Users are those of the same pass with
\* the write succeeding, the file is as it was, and every later pass tries
\* the write again, which lands once the file opens.
C17_WriteFailureReported ==
    [][(last' \in {"load", "syncDevMap"} /\ writable' = writable)
       => IF writable THEN file' = devmapData'
          ELSE /\ file' = file
               /\ Msg("Unable to write to DevMap file", "", "") \in report'
               /\ \E env \in Envs :
                     LET r == SyncResult(PassStart, [env EXCEPT !.writable = TRUE])
                     IN  /\ ~r.exc
                         /\ tree' = r.tree
                         /\ devmapData' = r.data
                         /\ languages' = r.languages
                         /\ projects' = r.projects
                         /\ users' = r.users
                         /\ report' = r.report \cup {Msg("Unable to write to DevMap file", "", "")}]_vars

\* A second pass has again failed to write a registry that the first pass
\* changed.
C17_Witness ==
    /\ last = "syncDevMap"
    /\ ~writable
    /\ Msg("Unable to write to DevMap file", "", "") \in report
    /\ file # devmapData
    /\ Len(devmapData.Languages) > Len(file.Languages)

\* ------------------------------------------------- the creation time

\* A run in winter and a run in summer.
Clocks == {StartClock, DstStart + StartClock}

\* created_at strings: one that does not parse (an absent created_at is
\* read as the empty string, which does not parse either), one written in
\* winter and one written in summer.
Stamps == {Garbage, timeToString(0), timeToString(DstStart + SecondsPerMinute)}

ClockRecords ==
    { [name |-> "Svc", folderName |-> "svc", lang |-> "Go", created_by |-> "alice",
       created_at |-> c, size |-> StaleBytes, git |-> FALSE] : c \in Stamps }

ClockFiles ==
    { [hasLanguages |-> hl, Languages |-> ls,
       hasProjects |-> hp, Projects |-> ps,
       hasUsers |-> FALSE, Users |-> <<>>] :
         hl \in BOOLEAN, ls \in SeqsUpTo(Langs, MaxLanguages),
         hp \in BOOLEAN, ps \in SeqsUpTo(ClockRecords, MaxDeclared) }

InitClock ==
    /\ tree \in StartTrees
    /\ file \in { f \in ClockFiles : StartFileOk(f) }
    /\ devmapData = NullJson
    /\ languages = <<>>
    /\ users = {}
    /\ projects = <<>>
    /\ now \in Clocks
    /\ last = "start"
    /\ report = {}
    /\ denied = {}
    /\ writable = TRUE
    /\ probe = Idle

SpecClock == InitClock /\ [][NextPasses]_vars

\* The instant at which the local wall clock shows the minute a well-formed
\* string names.
Denoted(timeStr) ==
    CHOOSE t \in {timeStr.minutes * SecondsPerMinute,
                  timeStr.minutes * SecondsPerMinute - DstShift} :
        localtime(t) = timeStr.minutes * SecondsPerMinute

\* C18: every persisted record becomes an in-memory project, with the
\* current time as createdAt when its created_at is absent or does not
\* parse and with the time its created_at denotes when it is well formed.
C18_CreatedAtLoaded ==
    [][SyncStep =>
        /\ Len(projects') >= Len(PreRegistry.Projects)
        /\ \A k \in 1..Len(PreRegistry.Projects) :
              LET rec == PreRegistry.Projects[k]
              IN  /\ projects'[k].folderName = rec.folderName
                  /\ projects'[k].lang = rec.lang
                  /\ projects'[k].createdAt =
                        IF rec.created_at.wellFormed THEN Denoted(rec.created_at)
                        ELSE now]_vars

\* ----------------------------------------- memory against the registry

\* C19: after a pass the in-memory project list and the persisted Projects
\* have the same length and, position by position, the same language and
\* folder, size and git flag, two records with one key included.
C19_MemoryMatchesPersisted ==
    AfterSync =>
        /\ Len(projects) = Len(devmapData.Projects)
        /\ \A k \in 1..Len(devmapData.Projects) :
              /\ projects[k].lang = devmapData.Projects[k].lang
              /\ projects[k].folderName = devmapData.Projects[k].folderName
              /\ projects[k].size = devmapData.Projects[k].size
              /\ projects[k].usesGit = devmapData.Projects[k].git

\* C20: after load, CreateLang and CreateProjectWizard calls the keys of
\* the in-memory project list, which ListProjects reads, are the keys of
\* the persisted Projects data, so a project the wizard made is listed.
C20_WizardProjectListed ==
    Loaded => Keys(projects) = Keys(devmapData.Projects)

\* ------------------------------------------------------- the Users list

\* C21: after a pass the persisted Users list holds the members of the
\* in-memory user set, each once, whether the registry that was loaded had
\* a Users field or not.
C21_UsersCanonical ==
    AfterSync =>
        \A reg \in {devmapData, file} :
            /\ SeqRange(reg.Users) = users
            /\ NoDuplicates(reg.Users)

\* ------------------------------------------------- the order of phases

\* C22: the directories directly under a language directory that the scan
\* of a pass added to Languages are Projects when that pass ends, in
\* memory and persisted.
C22_DiscoverySeesNewLanguages ==
    AfterSync =>
        \A l \in Langs, f \in Folders :
            (/\ Msg("Added new language", l, "") \in report
             /\ ProjectPath(l, f) \in DOMAIN tree)
            => /\ <<l, f>> \in Keys(projects)
               /\ <<l, f>> \in Keys(devmapData.Projects)
               /\ <<l, f>> \in Keys(file.Projects)

\* A pass has added a language it found on disk and a project it found in
\* the directory of that language.
C22_Witness ==
    /\ AfterSync
    /\ \E l \in Langs, f \in Folders :
          /\ Msg("Added new language", l, "") \in report
          /\ Msg("Added new project", l, f) \in report
          /\ ProjectPath(l, f) \in DOMAIN tree
          /\ <<l, f>> \in Keys(file.Projects)

\* C23: with nothing changing from outside and nothing failing, the second
\* pass reaches a fixed point: a third pass leaves the persisted registry
\* and the tree as the second pass left them.
C23_FixedPointAfterTwo ==
    AfterSync =>
        \A second \in { SyncResult(Cur, env) : env \in Envs } :
            \A third \in { SyncResult(second, env) : env \in Envs } :
                /\ ~second.exc /\ ~third.exc
                /\ third.data = second.data
                /\ third.file = second.file
                /\ third.tree = second.tree

\* A second pass has changed what the first pass left: it has given a
\* project found on disk its size and put that project's user in the list.
C23_Witness ==
    /\ last = "syncDevMap"
    /\ "unknown" \in SeqRange(file.Users)
    /\ \E k \in 1..Len(file.Projects) :
          /\ file.Projects[k].created_by = "unknown"
          /\ file.Projects[k].size > 0
====
